---------------------------- MODULE Spec2Model ----------------------------
(***************************************************************************)
(* A model of src/app.py of the fitness tracker: the macro calculator      *)
(* calculate_user_macros, the request handlers that create a profile or    *)
(* change its weight, activity level or goal (register, the weight form of *)
(* food_tracker, settings, the start-up seeding of the admin profile), and *)
(* the recommendation adapter get_ai_recommendations.                      *)
(*                                                                         *)
(* Numbers.  Python floats are modelled by exact rationals [n, d] in       *)
(* lowest terms with d > 0, and round() by rounding the exact value, ties  *)
(* to even (what Python 3 does on the exact value of a float).  Where the  *)
(* exact value of a rounded quantity lies halfway between two results      *)
(* (HasTie), what the code returns depends on the representation error of  *)
(* the double, so such profiles are left out of the input sets; on every   *)
(* other profile used below the exact results and the IEEE-double results  *)
(* of the code agree.                                                      *)
(***************************************************************************)
EXTENDS Integers, Sequences, FiniteSets, TLC

(***************************************************************************)
(* Rational arithmetic                                                     *)
(***************************************************************************)
Abs(x) == IF x < 0 THEN -x ELSE x

RECURSIVE GCD(_, _)
GCD(a, b) == IF b = 0 THEN a ELSE GCD(b, a % b)

Q(n, d) ==
    LET s == IF d < 0 THEN -1 ELSE 1
        g == GCD(Abs(n), Abs(d))
    IN  IF n = 0 THEN [n |-> 0, d |-> 1]
        ELSE [n |-> (s * n) \div g, d |-> (s * d) \div g]

R(i) == [n |-> i, d |-> 1]

RAdd(a, b) == Q(a.n * b.d + b.n * a.d, a.d * b.d)
RSub(a, b) == Q(a.n * b.d - b.n * a.d, a.d * b.d)
RMul(a, b) == Q(a.n * b.n, a.d * b.d)
RDiv(a, b) == Q(a.n * b.d, a.d * b.n)
RLt(a, b) == a.n * b.d < b.n * a.d

\* round(n/d) to an integer, ties to even; d > 0.
RoundHalfEven(n, d) ==
    LET q == n \div d
        r == n % d
    IN  IF 2 * r < d THEN q
        ELSE IF 2 * r > d THEN q + 1
        ELSE IF q % 2 = 0 THEN q ELSE q + 1

\* Python round(x): the nearest integer.
Round0(x) == RoundHalfEven(x.n, x.d)

\* Python round(x, 1): the nearest multiple of 0.1.
Round1(x) == Q(RoundHalfEven(10 * x.n, x.d), 10)

(***************************************************************************)
(* The macro calculator, src/app.py lines 306-361                          *)
(***************************************************************************)
\* activity_multipliers.get(level, 1.55)
activity_multipliers(level) ==
    CASE level = "sedentary"   -> Q(12, 10)
      [] level = "light"       -> Q(1375, 1000)
      [] level = "moderate"    -> Q(155, 100)
      [] level = "active"      -> Q(1725, 1000)
      [] level = "very_active" -> Q(19, 10)
      [] OTHER                 -> Q(155, 100)

goal_adjustments_lose300(goal) ==
    CASE goal = "lose"     -> R(-300)
      [] goal = "maintain" -> R(0)
      [] goal = "gain"     -> R(300)
      [] OTHER             -> R(0)

\* goal_adjustments.get(goal, 0)
goal_adjustments(goal) ==
    CASE goal = "lose"     -> R(-500)
      [] goal = "maintain" -> R(0)
      [] goal = "gain"     -> R(300)
      [] OTHER             -> R(0)

bmr_female_for_all(user) ==
    RSub(RSub(RAdd(RMul(R(10), user.weight), RMul(Q(625, 100), user.height)),
              RMul(R(5), R(user.age))), R(161))

\* Mifflin-St Jeor: +5 for 'male', -161 for every other gender value.
bmr(user) ==
    IF user.gender = "male"
    THEN RAdd(RSub(RAdd(RMul(R(10), user.weight), RMul(Q(625, 100), user.height)),
                   RMul(R(5), R(user.age))), R(5))
    ELSE RSub(RSub(RAdd(RMul(R(10), user.weight), RMul(Q(625, 100), user.height)),
                   RMul(R(5), R(user.age))), R(161))

tdee(user) == RMul(bmr(user), activity_multipliers(user.activity_level))

calorie_goal(user) == RAdd(tdee(user), goal_adjustments(user.goal))

protein_multiplier(goal) ==
    IF goal = "gain" THEN Q(22, 10)
    ELSE IF goal = "lose" THEN Q(24, 10)
    ELSE R(2)

protein_goal(user) == RMul(user.weight, protein_multiplier(user.goal))

fats_goal(user) == RDiv(RMul(calorie_goal(user), Q(25, 100)), R(9))

protein_calories(user) == RMul(protein_goal(user), R(4))

fat_calories(user) == RMul(fats_goal(user), R(9))

remaining_calories(user) ==
    RSub(RSub(calorie_goal(user), protein_calories(user)), fat_calories(user))

carbs_goal_clamped(user) ==
    IF RLt(remaining_calories(user), R(0)) THEN R(0)
    ELSE RDiv(remaining_calories(user), R(4))

carbs_goal(user) == RDiv(remaining_calories(user), R(4))

\* Lines 347-350: the four goal fields assigned on the user object.
AssignGoals(user) ==
    [user EXCEPT !.calorie_goal = Round0(calorie_goal(user)),
                 !.protein_goal = Round1(protein_goal(user)),
                 !.carbs_goal   = Round1(carbs_goal(user)),
                 !.fats_goal    = Round1(fats_goal(user))]

\* Lines 354-361: the dictionary calculate_user_macros returns.
MacrosResult(user) ==
    [bmr      |-> Round0(bmr(user)),
     tdee     |-> Round0(tdee(user)),
     calories |-> Round0(calorie_goal(user)),
     protein  |-> Round1(protein_goal(user)),
     carbs    |-> Round1(carbs_goal(user)),
     fats     |-> Round1(fats_goal(user))]

\* x lies exactly halfway between two integers.
IsTie0(x) == 2 * (x.n % x.d) = x.d

\* x lies exactly halfway between two multiples of 0.1.
IsTie1(x) == IsTie0(RMul(R(10), x))

\* One of the values calculate_user_macros rounds lies on a tie that the
\* double arithmetic of the code does not represent exactly.
HasTie(user) ==
    \/ IsTie0(tdee(user))
    \/ IsTie0(calorie_goal(user))
    \/ IsTie1(protein_goal(user))
    \/ IsTie1(carbs_goal(user))
    \/ IsTie1(fats_goal(user))

\* Column defaults of the goal fields of a new User row (lines 49-52).
DefaultCalorieGoal == 2000
DefaultProteinGoal == 150
DefaultCarbsGoal == 200
DefaultFatsGoal == 65

\* User(...) as the constructor and the column defaults fill it.
NewUser(age, gender, height, weight, activity_level, goal, is_admin) ==
    [age |-> age, gender |-> gender, height |-> R(height), weight |-> R(weight),
     activity_level |-> activity_level, goal |-> goal, is_admin |-> is_admin,
     calorie_goal |-> DefaultCalorieGoal,
     protein_goal |-> R(DefaultProteinGoal),
     carbs_goal   |-> R(DefaultCarbsGoal),
     fats_goal    |-> R(DefaultFatsGoal)]

(***************************************************************************)
(* Input sets.  The register and settings forms validate nothing beyond    *)
(* the field types, so bogus activity levels and goals and implausible     *)
(* ages, heights and weights are inputs the program accepts.               *)
(***************************************************************************)
Genders == {"male", "female"}
Ages == {25, 30, 90}
Heights == {100, 160, 175}
WeightsKg == {5, 60, 70, 82}
ActivityLevels == {"sedentary", "light", "moderate", "active", "very_active", "bogus"}
Goals == {"lose", "maintain", "gain", "bogus"}

\* What the register form is given, the weights typed into the weight form
\* and the settings form, and the activity levels and goals the settings form
\* is given, in the specification of the request handlers.
RegisterInputs ==
    {[age |-> 25, gender |-> "female", height |-> 160, weight |-> 60,
      activity_level |-> "sedentary", goal |-> "lose"]}
FormWeights == {62, 70}
SettingsActivityLevels == {"active"}
SettingsGoals == {"gain", "lose"}

\* Concurrent requests the server handles (app.run serves each request on a
\* thread of its own), and rows of the user table.
NumReqs == 3
MaxUsers == 2
Reqs == 1 .. NumReqs

VARIABLES
    profile,     \* SpecMacros: the User object calculate_user_macros is given
    macros,      \* SpecMacros: what the call returned
    mpc,         \* SpecMacros: "start" before the call, "done" after it
    users,       \* table user: id -> committed row
    weight_logs, \* table body_weight_log: set of committed rows
    reqs,        \* per request: its handler, position and session state
    quiet,       \* history: per user, the row when no request on it was running
    since,       \* history: per user, the requests begun since then
    food_logs,   \* table food_log: set of committed rows
    today,       \* date.today(), in days
    coach,       \* the /ai-coach request: position, locals, service outcome
    workout_sessions, \* table workout_session: set of committed rows
    exercise_sets,    \* table exercise_set: set of committed rows
    reply        \* what the last workout or delete request answered

macroVars == <<profile, macros, mpc>>
storeVars == <<users, weight_logs, reqs, quiet, since>>
coachVars == <<food_logs, today, coach>>
workoutVars == <<workout_sessions, exercise_sets, reply>>
vars ==
    <<profile, macros, mpc, users, weight_logs, reqs, quiet, since, food_logs, today, coach,
      workout_sessions, exercise_sets, reply>>

NoMacros ==
    [bmr |-> 0, tdee |-> 0, calories |-> 0, protein |-> R(0), carbs |-> R(0), fats |-> R(0)]

NoUser == NewUser(0, "", 0, 0, "", "", FALSE)

IdleReq ==
    [kind |-> "none", pc |-> "idle", user |-> 0, obj |-> NoUser,
     weight |-> 0, activity_level |-> "", goal |-> "", old_weight |-> R(0), log_id |-> 0]

MacrosIdle ==
    /\ profile = NoUser
    /\ macros = NoMacros
    /\ mpc = "idle"

\* db.create_all() on a new database: empty tables, no request running.
StoreInit ==
    /\ users = <<>>
    /\ weight_logs = {}
    /\ reqs = [r \in Reqs |-> IdleReq]
    /\ quiet = <<>>
    /\ since = <<>>

\* JSON values as json.loads returns them: a kind, the items (the elements of
\* a list, the characters of a string, the keys of a dict) and, for a number
\* or a boolean, its value.
StrAtom(s) == [k |-> "str", s |-> s, n |-> 0]
NumAtom(n) == [k |-> "num", s |-> "", n |-> n]
ListVal(items) == [k |-> "list", items |-> items, n |-> 0]
StrVal(chars) == [k |-> "str", items |-> [i \in 1 .. Len(chars) |-> StrAtom(chars[i])], n |-> 0]
DictVal(keys) == [k |-> "dict", items |-> [i \in 1 .. Len(keys) |-> StrAtom(keys[i])], n |-> 0]
NumVal(n) == [k |-> "num", items |-> <<>>, n |-> n]
NullVal == [k |-> "null", items |-> <<>>, n |-> 0]

IdleCoach ==
    [pc |-> "idle", user |-> 0, avg_calories |-> R(0), avg_protein |-> R(0),
     calls |-> 0, outcome |-> "", text |-> <<>>, result |-> NullVal]

CoachIdle ==
    /\ food_logs = {}
    /\ today = 0
    /\ coach = IdleCoach

\* The user a request came from and what it was answered.
Reply(u, status) == [user |-> u, status |-> status]

\* db.create_all(): no workout session, no exercise set, no request answered.
WorkoutIdle ==
    /\ workout_sessions = {}
    /\ exercise_sets = {}
    /\ reply = Reply(0, "")

(***************************************************************************)
(* SpecMacros: calculate_user_macros applied to one profile                *)
(***************************************************************************)
MacrosInit ==
    /\ profile \in {p \in {NewUser(a, g, h, w, al, gl, FALSE) :
                               a \in Ages, g \in Genders, h \in Heights, w \in WeightsKg,
                               al \in ActivityLevels, gl \in Goals} : ~HasTie(p)}
    /\ macros = NoMacros
    /\ mpc = "start"
    /\ StoreInit
    /\ CoachIdle
    /\ WorkoutIdle

calculate_user_macros ==
    /\ mpc = "start"
    /\ profile' = AssignGoals(profile)
    /\ macros' = MacrosResult(profile)
    /\ mpc' = "done"
    /\ UNCHANGED <<storeVars, coachVars, workoutVars>>

MacrosNext == calculate_user_macros

SpecMacros == MacrosInit /\ [][MacrosNext]_vars

(***************************************************************************)
(* Claims about calculate_user_macros, checked under SpecMacros            *)
(***************************************************************************)
IsProfile(p, male, age, height, weight, activity_level, goal) ==
    /\ (p.gender = "male") = male
    /\ p.age = age
    /\ p.height = R(height)
    /\ p.weight = R(weight)
    /\ p.activity_level = activity_level
    /\ p.goal = goal

\* The carbs goal as a reader of the worked example computes it: protein and
\* fats rounded first, their calories subtracted from the rounded calorie goal.
RoundedFirstCarbs(p) ==
    Round1(RDiv(RSub(RSub(R(Round0(calorie_goal(p))),
                          RMul(R(4), Round1(protein_goal(p)))),
                     RMul(R(9), Round1(fats_goal(p)))), R(4)))

\* C7 as stated: for (not male, 25 y, 160 cm, 60 kg, sedentary, lose) the call
\* returns and stores bmr 1314, tdee 1577, calories 1077, protein 144.0,
\* fats 29.9 and carbs 58.0, the carbs value being the one obtained by rounding
\* protein and fats before subtracting.
C7_AsStated ==
    (mpc = "done" /\ IsProfile(profile, FALSE, 25, 160, 60, "sedentary", "lose")) =>
        /\ macros.bmr = 1314 /\ macros.tdee = 1577 /\ macros.calories = 1077
        /\ macros.protein = R(144) /\ macros.fats = Q(299, 10)
        /\ macros.carbs = R(58)
        /\ macros.carbs = RoundedFirstCarbs(profile)
        /\ profile.calorie_goal = 1077 /\ profile.protein_goal = R(144)
        /\ profile.fats_goal = Q(299, 10) /\ profile.carbs_goal = R(58)

\* C7 amended: for that profile the call returns and stores bmr 1314, tdee 1577,
\* calories 1077, protein 144.0, fats 29.9 and carbs 57.9: carbs comes from the
\* unrounded calorie goal, protein and fats ((1076.8 - 576 - 269.2) / 4) and is
\* rounded only at the end, so it differs from the round-first value 58.0.
C7_FemaleLoseExample ==
    (mpc = "done" /\ IsProfile(profile, FALSE, 25, 160, 60, "sedentary", "lose")) =>
        /\ macros.bmr = 1314 /\ macros.tdee = 1577 /\ macros.calories = 1077
        /\ macros.protein = R(144) /\ macros.fats = Q(299, 10)
        /\ macros.carbs = Q(579, 10)
        /\ RoundedFirstCarbs(profile) = R(58)
        /\ profile.calorie_goal = 1077 /\ profile.protein_goal = R(144)
        /\ profile.fats_goal = Q(299, 10) /\ profile.carbs_goal = Q(579, 10)

C7_Witness ==
    /\ mpc = "done"
    /\ IsProfile(profile, FALSE, 25, 160, 60, "sedentary", "lose")
    /\ profile.carbs_goal = macros.carbs

\* C8 as stated: for (male, 30 y, 175 cm, 70 kg, moderate, maintain) the call
\* returns and stores bmr 1673, tdee 2593, calories 2593, protein 140.0,
\* fats 72.0 and carbs 346.3.
C8_AsStated ==
    (mpc = "done" /\ IsProfile(profile, TRUE, 30, 175, 70, "moderate", "maintain")) =>
        /\ macros.bmr = 1673 /\ macros.tdee = 2593 /\ macros.calories = 2593
        /\ macros.protein = R(140) /\ macros.fats = R(72)
        /\ macros.carbs = Q(3463, 10)
        /\ profile.calorie_goal = 2593 /\ profile.protein_goal = R(140)
        /\ profile.fats_goal = R(72) /\ profile.carbs_goal = Q(3463, 10)

\* C8 amended: for that profile the call returns and stores bmr 1649
\* (10*70 + 6.25*175 - 5*30 + 5 = 1648.75), tdee 2556, calories 2556,
\* protein 140.0, fats 71.0 and carbs 339.2.
C8_MaleMaintainExample ==
    (mpc = "done" /\ IsProfile(profile, TRUE, 30, 175, 70, "moderate", "maintain")) =>
        /\ macros.bmr = 1649 /\ macros.tdee = 2556 /\ macros.calories = 2556
        /\ macros.protein = R(140) /\ macros.fats = R(71)
        /\ macros.carbs = Q(3392, 10)
        /\ profile.calorie_goal = 2556 /\ profile.protein_goal = R(140)
        /\ profile.fats_goal = R(71) /\ profile.carbs_goal = Q(3392, 10)

C8_Witness ==
    /\ mpc = "done"
    /\ IsProfile(profile, TRUE, 30, 175, 70, "moderate", "maintain")
    /\ profile.calorie_goal = macros.calories

\* (calorie_goal - 4*protein_goal - 9*fats_goal) / 4 rounded to one decimal,
\* on the unrounded values the code holds in its local variables.
CarbsFormula(p) ==
    Round1(RDiv(RSub(calorie_goal(p),
                     RAdd(RMul(R(4), protein_goal(p)), RMul(R(9), fats_goal(p)))),
                R(4)))

ProteinAndFatExceedCalories(p) ==
    RLt(calorie_goal(p), RAdd(RMul(R(4), protein_goal(p)), RMul(R(9), fats_goal(p))))

\* C9: carbs_goal is never clamped at zero: the stored and the returned carbs
\* goal are (calorie_goal - 4*protein_goal - 9*fats_goal) / 4 rounded to one
\* decimal, and whenever protein and fat calories together exceed the calorie
\* goal they are that number, which is not positive and is negative unless it
\* rounds to zero.
C9_CarbsNotClamped ==
    (mpc = "done") =>
        /\ profile.carbs_goal = CarbsFormula(profile)
        /\ macros.carbs = CarbsFormula(profile)
        /\ ProteinAndFatExceedCalories(profile) =>
              /\ ~RLt(R(0), profile.carbs_goal)
              /\ (CarbsFormula(profile) # R(0)) => RLt(profile.carbs_goal, R(0))

C9_Witness ==
    /\ mpc = "done"
    /\ ProteinAndFatExceedCalories(profile)
    /\ RLt(profile.carbs_goal, R(0))
    /\ RLt(macros.carbs, R(0))


(***************************************************************************)
(* The request handlers that create a profile or change its weight,        *)
(* activity level or goal.  Every request runs in a SQLAlchemy session of  *)
(* its own: login_required loads the User row into the session's object    *)
(* (load_user, lines 365-367); a commit writes the columns whose value     *)
(* differs from the loaded one in one UPDATE and expires the object, so    *)
(* the next attribute access reads the row again.  Nothing in app.py       *)
(* locks a row or holds a transaction over a read and the later write, so  *)
(* the steps of concurrent requests interleave freely.                     *)
(***************************************************************************)
Running(r) == reqs[r].pc \in {"loaded", "committed", "refreshed"}

RunningOn(u) == {r \in Reqs : reqs[r].user = u /\ Running(r)}

\* Requests take the slots in the order they arrive.
NextSlot(r) == reqs[r].pc = "idle" /\ \A q \in Reqs : q < r => reqs[q].pc # "idle"

\* The four goal columns of a row.
GoalFields(row) ==
    [calorie_goal |-> row.calorie_goal, protein_goal |-> row.protein_goal,
     carbs_goal |-> row.carbs_goal, fats_goal |-> row.fats_goal]

\* session.commit() on a changed User object: an UPDATE of the columns whose
\* value differs from the one loaded, on the row as it is then.
Flush(row, loaded, obj) ==
    [row EXCEPT
       !.weight         = IF obj.weight # loaded.weight THEN obj.weight ELSE @,
       !.activity_level = IF obj.activity_level # loaded.activity_level
                          THEN obj.activity_level ELSE @,
       !.goal           = IF obj.goal # loaded.goal THEN obj.goal ELSE @,
       !.calorie_goal   = IF obj.calorie_goal # loaded.calorie_goal
                          THEN obj.calorie_goal ELSE @,
       !.protein_goal   = IF obj.protein_goal # loaded.protein_goal
                          THEN obj.protein_goal ELSE @,
       !.carbs_goal     = IF obj.carbs_goal # loaded.carbs_goal
                          THEN obj.carbs_goal ELSE @,
       !.fats_goal      = IF obj.fats_goal # loaded.fats_goal
                          THEN obj.fats_goal ELSE @]

\* History: a request on user u begins.
Begun(r, u) ==
    IF RunningOn(u) = {}
    THEN /\ quiet' = [quiet EXCEPT ![u] = users[u]]
         /\ since' = [since EXCEPT ![u] = {r}]
    ELSE /\ quiet' = quiet
         /\ since' = [since EXCEPT ![u] = @ \cup {r}]

\* __main__, lines 668-688: the default admin is added and committed with the
\* column defaults in its goal fields; calculate_user_macros is not called.
SeedAdmin ==
    /\ users = <<>>
    /\ users' = (1 :> NewUser(30, "male", 175, 70, "moderate", "maintain", TRUE))
    /\ quiet' = (1 :> NewUser(30, "male", 175, 70, "moderate", "maintain", TRUE))
    /\ since' = (1 :> {})
    /\ UNCHANGED <<weight_logs, reqs, macroVars, coachVars, workoutVars>>

\* register, lines 432-452: the new row is added and committed with the
\* column defaults in its goal fields; calculate_user_macros(new_user) follows.
RegisterCommit(r, in) ==
    LET id == Len(users) + 1
        row == NewUser(in.age, in.gender, in.height, in.weight,
                       in.activity_level, in.goal, FALSE)
    IN  /\ NextSlot(r)
        /\ users # <<>>
        /\ id <= MaxUsers
        /\ users' = users @@ (id :> row)
        /\ quiet' = quiet @@ (id :> row)
        /\ since' = since @@ (id :> {r})
        /\ reqs' = [reqs EXCEPT ![r] =
                      [IdleReq EXCEPT !.kind = "register", !.pc = "committed",
                                      !.user = id, !.obj = row]]
        /\ UNCHANGED <<weight_logs, macroVars, coachVars, workoutVars>>

\* food_tracker reached with the weight form by user u: the User row is loaded.
BeginWeightLog(r, u, w) ==
    /\ NextSlot(r)
    /\ u \in DOMAIN users
    /\ reqs' = [reqs EXCEPT ![r] =
                  [IdleReq EXCEPT !.kind = "weight", !.pc = "loaded", !.user = u,
                                  !.obj = users[u], !.weight = w]]
    /\ Begun(r, u)
    /\ UNCHANGED <<users, weight_logs, macroVars, coachVars, workoutVars>>

\* food_tracker, lines 506-515: the BodyWeightLog row and the new weight of
\* the profile are committed.
WeightLogCommit(r) ==
    LET u == reqs[r].user
        id == Cardinality(weight_logs) + 1
        obj == [reqs[r].obj EXCEPT !.weight = R(reqs[r].weight)]
    IN  /\ reqs[r].kind = "weight"
        /\ reqs[r].pc = "loaded"
        /\ weight_logs' = weight_logs \cup
              {[id |-> id, user_id |-> u, weight |-> R(reqs[r].weight)]}
        /\ users' = [users EXCEPT ![u] = Flush(@, reqs[r].obj, obj)]
        /\ reqs' = [reqs EXCEPT ![r].pc = "committed",
                                ![r].old_weight = reqs[r].obj.weight,
                                ![r].log_id = id]
        /\ UNCHANGED <<quiet, since, macroVars, coachVars, workoutVars>>

\* calculate_user_macros, line 321: the first attribute read after a commit
\* loads the row again.
MacrosRefresh(r) ==
    /\ reqs[r].pc = "committed"
    /\ reqs' = [reqs EXCEPT ![r].pc = "refreshed", ![r].obj = users[reqs[r].user]]
    /\ UNCHANGED <<users, weight_logs, quiet, since, macroVars, coachVars, workoutVars>>

\* calculate_user_macros, lines 321-352: the goals are computed from the
\* object, assigned and committed.
MacrosCommit(r) ==
    LET u == reqs[r].user
    IN  /\ reqs[r].pc = "refreshed"
        /\ users' = [users EXCEPT ![u] = Flush(@, reqs[r].obj, AssignGoals(reqs[r].obj))]
        /\ reqs' = [reqs EXCEPT ![r].pc = "done", ![r].obj = AssignGoals(reqs[r].obj)]
        /\ UNCHANGED <<weight_logs, quiet, since, macroVars, coachVars, workoutVars>>

\* calculate_user_macros raises after reading the row: the arithmetic of lines
\* 321-345 on a NULL column (age, gender, activity_level and goal are nullable
\* and editable in UserAdminView) or the commit of line 352 on a locked
\* database.  The request ends in an error; what line 515 or 452 committed stays.
MacrosFails(r) ==
    /\ reqs[r].pc = "refreshed"
    /\ reqs' = [reqs EXCEPT ![r].pc = "failed"]
    /\ UNCHANGED <<users, weight_logs, quiet, since, macroVars, coachVars, workoutVars>>

\* settings reached with POST by user u: the User row is loaded.
BeginSettings(r, u, w, al, gl) ==
    /\ NextSlot(r)
    /\ u \in DOMAIN users
    /\ reqs' = [reqs EXCEPT ![r] =
                  [IdleReq EXCEPT !.kind = "settings", !.pc = "loaded", !.user = u,
                                  !.obj = users[u], !.weight = w,
                                  !.activity_level = al, !.goal = gl]]
    /\ Begun(r, u)
    /\ UNCHANGED <<users, weight_logs, macroVars, coachVars, workoutVars>>

\* settings, lines 657-661: weight, activity level and goal are assigned,
\* calculate_user_macros computes the goals from the object as loaded (nothing
\* was committed since, so nothing is read again) and commits all of it.
SettingsCommit(r) ==
    LET u == reqs[r].user
        obj == AssignGoals([reqs[r].obj EXCEPT !.weight = R(reqs[r].weight),
                                               !.activity_level = reqs[r].activity_level,
                                               !.goal = reqs[r].goal])
    IN  /\ reqs[r].kind = "settings"
        /\ reqs[r].pc = "loaded"
        /\ users' = [users EXCEPT ![u] = Flush(@, reqs[r].obj, obj)]
        /\ reqs' = [reqs EXCEPT ![r].pc = "done", ![r].obj = obj]
        /\ UNCHANGED <<weight_logs, quiet, since, macroVars, coachVars, workoutVars>>

Init == StoreInit /\ MacrosIdle /\ CoachIdle /\ WorkoutIdle

Next ==
    \/ SeedAdmin
    \/ \E r \in Reqs, in \in RegisterInputs : RegisterCommit(r, in)
    \/ \E r \in Reqs, u \in 1 .. MaxUsers, w \in FormWeights : BeginWeightLog(r, u, w)
    \/ \E r \in Reqs : WeightLogCommit(r)
    \/ \E r \in Reqs : MacrosRefresh(r)
    \/ \E r \in Reqs : MacrosCommit(r)
    \/ \E r \in Reqs : MacrosFails(r)
    \/ \E r \in Reqs, u \in 1 .. MaxUsers, w \in FormWeights,
          al \in SettingsActivityLevels, gl \in SettingsGoals :
          BeginSettings(r, u, w, al, gl)
    \/ \E r \in Reqs : SettingsCommit(r)

Spec == Init /\ [][Next]_vars

\* Sanity: no row a request computes goals from lies on a rounding tie.
NoTieReached == \A u \in DOMAIN users : ~HasTie(users[u])

(***************************************************************************)
(* Claims about the request handlers, checked under Spec                   *)
(***************************************************************************)
\* The BodyWeightLog row request r committed.
LogRowOf(r) ==
    [id |-> reqs[r].log_id, user_id |-> reqs[r].user, weight |-> R(reqs[r].weight)]

\* The goal fields calculate_user_macros gives the row.
ComputedGoals(row) == GoalFields(AssignGoals(row))

\* C1 as stated: logging a body weight is atomic with the goal recompute: in
\* no committed state are the new BodyWeightLog row and the new profile weight
\* persisted while the goal fields still hold the values computed for the old
\* weight, and when the recompute fails the weight change is rolled back too.
C1_AsStated ==
    \A r \in Reqs :
        (reqs[r].kind = "weight" /\ reqs[r].pc \in {"committed", "refreshed", "done", "failed"}) =>
            LET row == users[reqs[r].user]
            IN  /\ ( /\ LogRowOf(r) \in weight_logs
                     /\ row.weight = R(reqs[r].weight)
                     /\ row.weight # reqs[r].old_weight )
                       => GoalFields(row) #
                            ComputedGoals([row EXCEPT !.weight = reqs[r].old_weight])
                /\ (reqs[r].pc = "failed" /\ R(reqs[r].weight) # reqs[r].old_weight) =>
                       /\ LogRowOf(r) \notin weight_logs
                       /\ row.weight # R(reqs[r].weight)

\* C2 as stated: once a profile was created (registration, admin seeding) or
\* its weight, activity level or goal was changed (weight form, settings form)
\* and the operation has completed, the stored calorie, protein, carbs and
\* fats goals are the formula applied to the profile's current fields.
C2_AsStated ==
    \A u \in DOMAIN users :
        (\A r \in Reqs : reqs[r].user = u => reqs[r].pc = "done") =>
            GoalFields(users[u]) = ComputedGoals(users[u])

\* What a weight-updating request leaves when it runs alone on a row.
SerialRun(row, r) ==
    IF reqs[r].kind = "weight"
    THEN AssignGoals([row EXCEPT !.weight = R(reqs[r].weight)])
    ELSE AssignGoals([row EXCEPT !.weight = R(reqs[r].weight),
                                 !.activity_level = reqs[r].activity_level,
                                 !.goal = reqs[r].goal])

WeightAndGoals(row) ==
    [weight |-> row.weight, calorie_goal |-> row.calorie_goal,
     protein_goal |-> row.protein_goal, carbs_goal |-> row.carbs_goal,
     fats_goal |-> row.fats_goal]

\* C3 as stated: two concurrent weight-updating requests on one profile
\* (weight form or settings form) are serialized: once both have completed,
\* the persisted weight and goal fields are what running the two one after
\* the other, in one of the two orders, leaves.
C3_AsStated ==
    \A u \in DOMAIN users : \A r1, r2 \in Reqs :
        ( /\ r1 # r2
          /\ since[u] = {r1, r2}
          /\ reqs[r1].pc = "done" /\ reqs[r2].pc = "done"
          /\ reqs[r1].kind \in {"weight", "settings"}
          /\ reqs[r2].kind \in {"weight", "settings"} )
        => WeightAndGoals(users[u]) \in
             {WeightAndGoals(SerialRun(SerialRun(quiet[u], r1), r2)),
              WeightAndGoals(SerialRun(SerialRun(quiet[u], r2), r1))}

(***************************************************************************)
(* The recommendation adapter get_ai_recommendations, lines 230-302.       *)
(*                                                                         *)
(* A text is a sequence of chunks whose concatenation is the string: the   *)
(* three backticks of a fence (Ticks) and the label "json" are chunks of   *)
(* their own, " " stands for white space, and every other chunk is a piece *)
(* of text that holds no backtick.                                         *)
(***************************************************************************)
Ticks == "<three backticks>"

Min(S) == CHOOSE x \in S : \A y \in S : x <= y
Max(a, b) == IF a >= b THEN a ELSE b

\* str.strip()
RECURSIVE strip(_)
strip(t) ==
    IF t = <<>> THEN t
    ELSE IF Head(t) = " " THEN strip(Tail(t))
    ELSE IF t[Len(t)] = " " THEN strip(SubSeq(t, 1, Len(t) - 1))
    ELSE t

TicksAt(t) == {i \in 1 .. Len(t) : t[i] = Ticks}
JsonFenceAt(t) == {i \in 1 .. Len(t) - 1 : t[i] = Ticks /\ t[i + 1] = "json"}

\* Ticks + 'json' in text,  Ticks in text
HasJsonFence(t) == JsonFenceAt(t) # {}
HasTicks(t) == TicksAt(t) # {}

\* text.split(Ticks)[0]
BeforeTicks(t) == IF HasTicks(t) THEN SubSeq(t, 1, Min(TicksAt(t)) - 1) ELSE t

\* text.split(Ticks)[1], where Ticks is in text
AfterFirstTicks(t) == BeforeTicks(SubSeq(t, Min(TicksAt(t)) + 1, Len(t)))

\* text.split(Ticks + 'json')[1], where Ticks + 'json' is in text
AfterFirstJsonFence(t) ==
    LET rest == SubSeq(t, Min(JsonFenceAt(t)) + 2, Len(t))
    IN  IF HasJsonFence(rest) THEN SubSeq(rest, 1, Min(JsonFenceAt(rest)) - 1) ELSE rest

\* Lines 280-283: the fence is cut away.
unfence(t) ==
    IF HasJsonFence(t) THEN strip(BeforeTicks(AfterFirstJsonFence(t)))
    ELSE IF HasTicks(t) THEN strip(BeforeTicks(AfterFirstTicks(t)))
    ELSE t

\* The JSON documents the service texts are built from, one chunk each, and
\* one whose first tip holds three backticks.
Tips3 == "{\"recommendations\": [\"a\", \"b\", \"c\"]}"
Tips4 == "{\"recommendations\": [\"a\", \"b\", \"c\", \"d\"]}"
Tips2 == "{\"recommendations\": [\"a\", \"b\"]}"
Tips0 == "{\"recommendations\": []}"
Nums3 == "{\"recommendations\": [1, 2, 3]}"
Str4 == "{\"recommendations\": \"abcd\"}"
Str2 == "{\"recommendations\": \"ab\"}"
Num7 == "{\"recommendations\": 7}"
Null == "{\"recommendations\": null}"
Dict3 == "{\"recommendations\": {\"a\": 1, \"b\": 2, \"c\": 3}}"
NoKey == "{\"tips\": [\"a\", \"b\", \"c\"]}"
TopList == "[\"a\", \"b\", \"c\"]"
TopNum == "7"
Garbage == "Sorry, no tips today."
TickTipsHead == "{\"recommendations\": [\"wrap code in "
TickTipsTail == "\", \"b\", \"c\"]}"
TickTips == <<TickTipsHead, Ticks, TickTipsTail>>

JsonChunks ==
    {Tips3, Tips4, Tips2, Tips0, Nums3, Str4, Str2, Num7, Null, Dict3, NoKey, TopList, TopNum}

Parsed(kind, has, recs) == [ok |-> TRUE, k |-> kind, has |-> has, recs |-> recs]
ParseError == [ok |-> FALSE, k |-> "", has |-> FALSE, recs |-> NullVal]

\* json.loads(text): the value of a text that is one JSON document, white
\* space around it allowed; ParseError where json.loads raises.  Of a parsed
\* value the model keeps its kind and what the key 'recommendations' holds.
json_loads(t) ==
    LET d == strip(t)
    IN  IF d = TickTips
        THEN Parsed("dict", TRUE, ListVal(<<StrAtom("wrap code in <three backticks>"), StrAtom("b"), StrAtom("c")>>))
        ELSE IF Len(d) # 1 \/ d[1] \notin JsonChunks THEN ParseError
        ELSE CASE d[1] = Tips3 -> Parsed("dict", TRUE, ListVal(<<StrAtom("a"), StrAtom("b"), StrAtom("c")>>))
               [] d[1] = Tips4 -> Parsed("dict", TRUE,
                                    ListVal(<<StrAtom("a"), StrAtom("b"), StrAtom("c"), StrAtom("d")>>))
               [] d[1] = Tips2 -> Parsed("dict", TRUE, ListVal(<<StrAtom("a"), StrAtom("b")>>))
               [] d[1] = Tips0 -> Parsed("dict", TRUE, ListVal(<<>>))
               [] d[1] = Nums3 -> Parsed("dict", TRUE, ListVal(<<NumAtom(1), NumAtom(2), NumAtom(3)>>))
               [] d[1] = Str4 -> Parsed("dict", TRUE, StrVal(<<"a", "b", "c", "d">>))
               [] d[1] = Str2 -> Parsed("dict", TRUE, StrVal(<<"a", "b">>))
               [] d[1] = Num7 -> Parsed("dict", TRUE, NumVal(7))
               [] d[1] = Null -> Parsed("dict", TRUE, NullVal)
               [] d[1] = Dict3 -> Parsed("dict", TRUE, DictVal(<<"a", "b", "c">>))
               [] d[1] = NoKey -> Parsed("dict", FALSE, NullVal)
               [] d[1] = TopList -> Parsed("list", FALSE, NullVal)
               [] d[1] = TopNum -> Parsed("num", FALSE, NullVal)

\* Lines 291-295 and 298-302.
Fallback ==
    ListVal(<<StrAtom("Track your daily nutrition consistently."),
              StrAtom("Maintain regular workout schedule."),
              StrAtom("Get 7-8 hours of sleep for recovery.")>>)

\* bool(v)
Truthy(v) ==
    CASE v.k \in {"list", "str", "dict"} -> v.items # <<>>
      [] v.k \in {"num", "bool"} -> v.n # 0
      [] OTHER -> FALSE

\* len(v) is defined
HasLen(v) == v.k \in {"list", "str", "dict"}

\* v[:3] is defined
Sliceable(v) == v.k \in {"list", "str"}

\* v[:3]
FirstThree(v) == [v EXCEPT !.items = SubSeq(@, 1, IF Len(@) < 3 THEN Len(@) ELSE 3)]

\* Lines 278-302 on the text of the response: what the function returns.  An
\* exception raised on the way (json.loads on a text that is no JSON, .get on
\* a value that is no dict, len of a number, a slice of a dict) is caught by
\* line 296 and gives the fallback.
handle_response(t) ==
    LET result == json_loads(unfence(strip(t)))
    IN  IF ~result.ok THEN Fallback
        ELSE IF result.k # "dict" THEN Fallback
        ELSE LET recommendations == IF result.has THEN result.recs ELSE ListVal(<<>>)
             IN  IF ~Truthy(recommendations) THEN Fallback
                 ELSE IF ~HasLen(recommendations) THEN Fallback
                 ELSE IF Len(recommendations.items) >= 3
                      THEN IF Sliceable(recommendations) THEN FirstThree(recommendations)
                           ELSE Fallback
                      ELSE Fallback

\* What the response of the service may hold as text.
AllChunks == JsonChunks \cup {Garbage}

ServiceTexts ==
    {<<d>> : d \in AllChunks}
    \cup {<<Ticks, "json", " ", d, " ", Ticks>> : d \in AllChunks}
    \cup {<<Ticks, " ", d, " ", Ticks>> : d \in {Tips3, Tips2, Garbage}}
    \cup {<<" ", Tips3, " ">>,
          <<"Here are your tips:", " ", Ticks, "json", " ", Tips3, " ", Ticks>>,
          <<Ticks, "json", " ", Tips3>>,
          TickTips,
          <<Ticks, "json", " ", TickTipsHead, Ticks, TickTipsTail, " ", Ticks>>,
          <<>>}

\* What the food form is given.
FoodInputs == {[calories |-> 300, protein |-> 20]}

\* What the admin form for food entries is given.
AdminFoodInputs == {[calories |-> 500, protein |-> 31]}

MaxFoodLogs == 3
MaxDay == 1

\* timedelta() of line 233: the window reaches back zero days.
WindowDays == 0

RECURSIVE SumCalories(_)
SumCalories(S) ==
    IF S = {} THEN 0
    ELSE LET f == CHOOSE x \in S : TRUE IN f.calories + SumCalories(S \ {f})

RECURSIVE SumProtein(_)
SumProtein(S) ==
    IF S = {} THEN 0
    ELSE LET f == CHOOSE x \in S : TRUE IN f.protein + SumProtein(S \ {f})

week_ago == today - WindowDays

recent_foods_of_all_users(u) == {f \in food_logs : f.date >= week_ago}

\* Lines 235-238.
recent_foods(u) == {f \in food_logs : f.user_id = u /\ f.date >= week_ago}

\* Line 246.
days_count(u) == Max(1, Cardinality({f.date : f \in recent_foods(u)}))

\* Lines 245-251.
avg_calories(u) ==
    IF recent_foods(u) # {} THEN RDiv(R(SumCalories(recent_foods(u))), R(days_count(u)))
    ELSE R(0)

avg_protein(u) ==
    IF recent_foods(u) # {} THEN RDiv(R(SumProtein(recent_foods(u))), R(days_count(u)))
    ELSE R(0)

\* The id SQLite gives a new row of an INTEGER PRIMARY KEY table: one more
\* than the largest id in the table, so the id of a deleted last row is used
\* again.
NextId(table) ==
    IF table = {} THEN 1
    ELSE (CHOOSE i \in {row.id : row \in table} : \A row \in table : row.id <= i) + 1

LogFoodRecomputing(u, in) ==
    /\ u \in DOMAIN users
    /\ NextId(food_logs) <= MaxFoodLogs
    /\ food_logs' = food_logs \cup
          {[id |-> NextId(food_logs), user_id |-> u, date |-> today,
            calories |-> in.calories, protein |-> in.protein]}
    /\ users' = [users EXCEPT ![u] = AssignGoals(@)]
    /\ UNCHANGED <<today, coach, weight_logs, reqs, quiet, since, macroVars, workoutVars>>

\* food_tracker, lines 492-502: a food entry of the user, dated today.
LogFood(u, in) ==
    /\ u \in DOMAIN users
    /\ NextId(food_logs) <= MaxFoodLogs
    /\ food_logs' = food_logs \cup
          {[id |-> NextId(food_logs), user_id |-> u, date |-> today,
            calories |-> in.calories, protein |-> in.protein]}
    /\ UNCHANGED <<today, coach, storeVars, macroVars, workoutVars>>

\* FoodLogAdminView, lines 126-137 and 193: an admin creates a food entry for
\* any user with any date.
AdminCreateFoodLog(u, d, in) ==
    /\ u \in DOMAIN users
    /\ NextId(food_logs) <= MaxFoodLogs
    /\ food_logs' = food_logs \cup
          {[id |-> NextId(food_logs), user_id |-> u, date |-> d,
            calories |-> in.calories, protein |-> in.protein]}
    /\ UNCHANGED <<today, coach, storeVars, macroVars, workoutVars>>

\* Midnight: date.today() moves on.
DayPasses ==
    /\ today < MaxDay
    /\ today' = today + 1
    /\ UNCHANGED <<food_logs, coach, storeVars, macroVars, workoutVars>>

\* ai_coach, line 650, and get_ai_recommendations, lines 232-268: the logs
\* are read, the averages computed and the service is called with the prompt.
\* The workout count and the prompt reach only the service, whose answer is
\* any of the outcomes below.
AiCoachCall(u) ==
    /\ coach.pc \in {"idle", "returned"}
    /\ u \in DOMAIN users
    /\ coach' = [IdleCoach EXCEPT !.pc = "calling", !.user = u,
                                  !.avg_calories = avg_calories(u),
                                  !.avg_protein = avg_protein(u),
                                  !.calls = 1]
    /\ UNCHANGED <<food_logs, today, storeVars, macroVars, workoutVars>>

\* The call in flight once the prompt is out: the averages went into the
\* prompt of lines 253-264 and nothing reads them again.
Sent == [coach EXCEPT !.avg_calories = R(0), !.avg_protein = R(0)]

\* The service answers with a response whose text is t.
ServiceResponds(t) ==
    /\ coach.pc = "calling"
    /\ coach' = [Sent EXCEPT !.pc = "answered", !.outcome = "text", !.text = t]
    /\ UNCHANGED <<food_logs, today, storeVars, macroVars, workoutVars>>

\* generate_content, or reading response.text, raises.
ServiceRaises ==
    /\ coach.pc = "calling"
    /\ coach' = [Sent EXCEPT !.pc = "answered", !.outcome = "raised"]
    /\ UNCHANGED <<food_logs, today, storeVars, macroVars, workoutVars>>

\* The service never answers: line 268 passes no timeout, the call blocks.
ServiceHangs ==
    /\ coach.pc = "calling"
    /\ coach' = [Sent EXCEPT !.pc = "hung", !.outcome = "silent"]
    /\ UNCHANGED <<food_logs, today, storeVars, macroVars, workoutVars>>

\* handle_response, tabulated over the texts of the service.
Handled == [t \in ServiceTexts |-> handle_response(t)]

\* Lines 270-302: the response is handled and the function returns.
AiCoachReturn ==
    /\ coach.pc = "answered"
    /\ coach' = [coach EXCEPT !.pc = "returned",
                              !.result = IF coach.outcome = "text"
                                         THEN Handled[coach.text]
                                         ELSE Fallback]
    /\ UNCHANGED <<food_logs, today, storeVars, macroVars, workoutVars>>

\* Two profiles as the seeding and a registration leave them.
CoachInit ==
    /\ users = <<NewUser(30, "male", 175, 70, "moderate", "maintain", TRUE),
                 AssignGoals(NewUser(25, "female", 160, 60, "sedentary", "lose", FALSE))>>
    /\ weight_logs = {}
    /\ reqs = [r \in Reqs |-> IdleReq]
    /\ quiet = users
    /\ since = <<{}, {}>>
    /\ MacrosIdle
    /\ CoachIdle
    /\ WorkoutIdle

CoachNext ==
    \/ \E u \in 1 .. MaxUsers, in \in FoodInputs : LogFood(u, in)
    \/ \E u \in 1 .. MaxUsers, d \in 0 .. MaxDay, in \in AdminFoodInputs : AdminCreateFoodLog(u, d, in)
    \/ DayPasses
    \/ \E u \in 1 .. MaxUsers : AiCoachCall(u)
    \/ \E t \in ServiceTexts : ServiceResponds(t)
    \/ ServiceRaises
    \/ ServiceHangs
    \/ AiCoachReturn

SpecCoach == CoachInit /\ [][CoachNext]_vars

\* The code runs on once the service has answered; nothing makes the service
\* answer.
FairSpecCoach == SpecCoach /\ WF_vars(AiCoachReturn)


\* ---------------------------------------------------------------------------
\* Claims on the recommendation adapter, under SpecCoach and FairSpecCoach.
\* ---------------------------------------------------------------------------

IsThreeStrings(v) ==
    /\ v.k \in {"list", "str"}
    /\ Len(v.items) = 3
    /\ \A i \in 1 .. 3 : v.items[i].k = "str"

\* C4: get_recommendations always returns a sequence of exactly three
\* strings, whatever the service gave: an exception, text that is no JSON,
\* JSON that is no object, an object without the key, fewer than three
\* items, three or more, or a value that is no list of strings.  (A string of
\* three characters is taken as three strings here.)
C4_AsStated == coach.pc = "returned" => IsThreeStrings(coach.result)

\* C5: the call to the service is bounded by a timeout: if the service never
\* responds, get_recommendations still returns in the end, and it returns
\* the fallback triple; the service is invoked at most once per call.
C5_AsStated ==
    /\ [](coach.calls <= 1)
    /\ (coach.pc = "hung") ~> (coach.pc = "returned" /\ coach.result = Fallback)

\* Two readings of 'removing a surrounding fence': the fence markers at the
\* two ends of the text are taken off, or the content of the first block
\* between an opening and a closing fence is taken.
EndsUnfenced(t) ==
    LET opened == IF Len(t) >= 2 /\ t[1] = Ticks /\ t[2] = "json" THEN SubSeq(t, 3, Len(t))
                  ELSE IF Len(t) >= 1 /\ t[1] = Ticks THEN SubSeq(t, 2, Len(t))
                  ELSE t
        closed == IF opened # t /\ Len(opened) >= 1 /\ opened[Len(opened)] = Ticks
                  THEN SubSeq(opened, 1, Len(opened) - 1)
                  ELSE opened
    IN  strip(closed)

FirstBlock(t) ==
    IF Cardinality(TicksAt(t)) < 2 THEN t
    ELSE LET open == Min(TicksAt(t))
             close == Min(TicksAt(t) \ {open})
             from == IF open + 1 < close /\ t[open + 1] = "json" THEN open + 2 ELSE open + 1
         IN  strip(SubSeq(t, from, close - 1))

\* What C6 asks for of a text whose fence was removed.
Asked(unfenced) ==
    LET doc == json_loads(unfenced)
    IN  IF doc.ok /\ doc.k = "dict" /\ doc.has /\ Sliceable(doc.recs) /\ Len(doc.recs.items) >= 3
        THEN FirstThree(doc.recs)
        ELSE Fallback

\* C6: get_recommendations returns the first three items of recommendations,
\* in order, when the text of the service, a surrounding fence removed,
\* parses as JSON and yields at least three items; in every other case
\* (parse failure, missing key, fewer than three items, an exception from
\* the call) it returns exactly the fixed triple.  Either reading of the
\* removal of the fence is accepted.
C6_AsStated ==
    coach.pc = "returned" =>
        IF coach.outcome = "text"
        THEN coach.result \in {Asked(EndsUnfenced(strip(coach.text))),
                               Asked(FirstBlock(strip(coach.text)))}
        ELSE coach.result = Fallback

\* The entries of user u dated on or after the start of the window, at the
\* moment of the call.
InWindow(u) == {f \in food_logs : f.user_id = u /\ ~(f.date < today - WindowDays)}

\* C10: the average daily calories and the average daily protein are each
\* the sum over the in-window food entries of the requesting user divided by
\* the number of distinct dates among them; both are 0 when the user has no
\* in-window entry; entries of other users and entries dated before the
\* window do not contribute.
C10_Averages ==
    [][(coach.pc # "calling" /\ coach'.pc = "calling") =>
        LET own == InWindow(coach'.user)
            days == Cardinality({f.date : f \in own})
        IN  IF own = {}
            THEN coach'.avg_calories = R(0) /\ coach'.avg_protein = R(0)
            ELSE /\ days >= 1
                 /\ RMul(coach'.avg_calories, R(days)) = R(SumCalories(own))
                 /\ RMul(coach'.avg_protein, R(days)) = R(SumProtein(own))]_vars

\* The averages were computed for a user with in-window entries on two
\* dates, next to an entry of another user.
C10_Witness ==
    /\ coach.pc = "calling"
    /\ Cardinality({f.date : f \in InWindow(coach.user)}) = 2
    /\ \E f \in food_logs : f.user_id # coach.user
    /\ coach.avg_calories = R(400)
    /\ coach.avg_protein = Q(51, 2)


\* ---------------------------------------------------------------------------
\* Workout sessions, exercise sets and the delete routes.  Each handler reads,
\* writes and commits once, so each is one step.
\* ---------------------------------------------------------------------------

MaxSessions == 1
MaxSets == 2

\* A nullable column or an optional key of the JSON body.
None == {}
Some(v) == {v}

\* What the JSON bodies and the routes are given.
SessionIdInputs == {None} \cup {Some(i) : i \in 1 .. MaxSessions}
DurationInputs == {None, Some(30)}
SetIdInputs == 1 .. MaxSets
FoodIdInputs == 1 .. MaxFoodLogs
WeightIdInputs == {1}

\* db.session.get(Model, id): the rows with that primary key, none or one.
Get(table, id) == {row \in table : row.id = id}

\* start_workout, lines 569-578.
start_workout(u) ==
    /\ u \in DOMAIN users
    /\ NextId(workout_sessions) <= MaxSessions
    /\ workout_sessions' = workout_sessions \cup
          {[id |-> NextId(workout_sessions), user_id |-> u,
            end_time |-> None, total_duration |-> None]}
    /\ reply' = Reply(u, "started")
    /\ UNCHANGED <<exercise_sets, storeVars, macroVars, coachVars>>

\* add_exercise, lines 580-600.  The session id of the body goes into the
\* new row as it is; no session is looked up.  The database is SQLite with
\* foreign keys not enforced (line 25, no PRAGMA), so only the NOT NULL of
\* line 90 can refuse the row.
add_exercise(u, session_id) ==
    /\ u \in DOMAIN users
    /\ IF session_id = None
       THEN /\ reply' = Reply(u, "500")
            /\ UNCHANGED exercise_sets
       ELSE /\ NextId(exercise_sets) <= MaxSets
            /\ exercise_sets' = exercise_sets \cup
                  {[id |-> NextId(exercise_sets),
                    workout_session_id |-> CHOOSE i \in session_id : TRUE]}
            /\ reply' = Reply(u, "success")
    /\ UNCHANGED <<workout_sessions, storeVars, macroVars, coachVars>>

\* finish_workout, lines 602-617.
finish_workout(u, session_id, duration) ==
    /\ u \in DOMAIN users
    /\ LET session == IF session_id = None THEN {}
                      ELSE Get(workout_sessions, CHOOSE i \in session_id : TRUE)
       IN  IF session = {}
           THEN /\ reply' = Reply(u, "Session not found")
                /\ UNCHANGED workout_sessions
           ELSE /\ workout_sessions' =
                      (workout_sessions \ session) \cup
                      {[row EXCEPT !.end_time = Some(today), !.total_duration = duration] :
                          row \in session}
                /\ reply' = Reply(u, "finished")
    /\ UNCHANGED <<exercise_sets, storeVars, macroVars, coachVars>>

\* delete_exercise_set, lines 619-631.  exercise_set.workout_session is None
\* when no session has the id, and .user_id of it raises.
delete_exercise_set(u, set_id) ==
    /\ u \in DOMAIN users
    /\ LET exercise_set == Get(exercise_sets, set_id)
           workout_session ==
               {row \in workout_sessions :
                   \E e \in exercise_set : row.id = e.workout_session_id}
       IN  IF exercise_set = {}
           THEN /\ reply' = Reply(u, "404")
                /\ UNCHANGED exercise_sets
           ELSE IF workout_session = {}
           THEN /\ reply' = Reply(u, "500")
                /\ UNCHANGED exercise_sets
           ELSE IF \E row \in workout_session : row.user_id = u
           THEN /\ exercise_sets' = exercise_sets \ exercise_set
                /\ reply' = Reply(u, "redirect")
           ELSE /\ reply' = Reply(u, "redirect")
                /\ UNCHANGED exercise_sets
    /\ UNCHANGED <<workout_sessions, storeVars, macroVars, coachVars>>

\* Line 83, cascade='all, delete-orphan': the sets the deleted session takes
\* with it.
cascade(workout_session) ==
    {e \in exercise_sets : \E row \in workout_session : e.workout_session_id = row.id}

\* delete_workout_session, lines 633-645.
delete_workout_session(u, session_id) ==
    /\ u \in DOMAIN users
    /\ LET workout_session == Get(workout_sessions, session_id)
       IN  IF workout_session = {}
           THEN /\ reply' = Reply(u, "404")
                /\ UNCHANGED <<workout_sessions, exercise_sets>>
           ELSE IF \E row \in workout_session : row.user_id = u
           THEN /\ workout_sessions' = workout_sessions \ workout_session
                /\ exercise_sets' = exercise_sets \ cascade(workout_session)
                /\ reply' = Reply(u, "redirect")
           ELSE /\ reply' = Reply(u, "redirect")
                /\ UNCHANGED <<workout_sessions, exercise_sets>>
    /\ UNCHANGED <<storeVars, macroVars, coachVars>>

\* delete_food, lines 536-548.
delete_food(u, food_id) ==
    /\ u \in DOMAIN users
    /\ LET food_log == Get(food_logs, food_id)
       IN  IF food_log = {}
           THEN /\ reply' = Reply(u, "404")
                /\ UNCHANGED food_logs
           ELSE IF \E row \in food_log : row.user_id = u
           THEN /\ food_logs' = food_logs \ food_log
                /\ reply' = Reply(u, "redirect")
           ELSE /\ reply' = Reply(u, "redirect")
                /\ UNCHANGED food_logs
    /\ UNCHANGED <<today, coach, workout_sessions, exercise_sets, storeVars, macroVars>>

\* delete_weight, lines 550-562.
delete_weight(u, weight_id) ==
    /\ u \in DOMAIN users
    /\ LET weight_log == Get(weight_logs, weight_id)
       IN  IF weight_log = {}
           THEN /\ reply' = Reply(u, "404")
                /\ UNCHANGED weight_logs
           ELSE IF \E row \in weight_log : row.user_id = u
           THEN /\ weight_logs' = weight_logs \ weight_log
                /\ reply' = Reply(u, "redirect")
           ELSE /\ reply' = Reply(u, "redirect")
                /\ UNCHANGED weight_logs
    /\ UNCHANGED <<users, reqs, quiet, since, workout_sessions, exercise_sets,
                   macroVars, coachVars>>

\* The seeded admin, and a registered user who has logged the weight 62.
LogsInit ==
    /\ users = <<NewUser(30, "male", 175, 70, "moderate", "maintain", TRUE),
                 AssignGoals([NewUser(25, "female", 160, 60, "sedentary", "lose", FALSE)
                                 EXCEPT !.weight = R(62)])>>
    /\ weight_logs = {[id |-> 1, user_id |-> 2, weight |-> R(62)]}
    /\ reqs = [r \in Reqs |-> IdleReq]
    /\ quiet = users
    /\ since = <<{}, {}>>
    /\ MacrosIdle
    /\ CoachIdle
    /\ WorkoutIdle

LogsNext ==
    \/ \E u \in 1 .. MaxUsers, in \in FoodInputs : LogFood(u, in)
    \/ \E u \in 1 .. MaxUsers, food_id \in FoodIdInputs : delete_food(u, food_id)
    \/ \E u \in 1 .. MaxUsers, weight_id \in WeightIdInputs : delete_weight(u, weight_id)
    \/ \E u \in 1 .. MaxUsers : start_workout(u)
    \/ \E u \in 1 .. MaxUsers, session_id \in SessionIdInputs : add_exercise(u, session_id)
    \/ \E u \in 1 .. MaxUsers, session_id \in SessionIdInputs, duration \in DurationInputs :
          finish_workout(u, session_id, duration)
    \/ \E u \in 1 .. MaxUsers, set_id \in SetIdInputs : delete_exercise_set(u, set_id)
    \/ \E u \in 1 .. MaxUsers, session_id \in 1 .. MaxSessions : delete_workout_session(u, session_id)

SpecLogs == LogsInit /\ [][LogsNext]_vars


\* ---------------------------------------------------------------------------
\* Claims on food and workout logging, under SpecLogs.
\* ---------------------------------------------------------------------------

ProfileFields(row) == <<row.weight, row.activity_level, row.goal, GoalFields(row)>>

\* C11: logging or deleting a food entry, starting a workout, adding an
\* exercise set, finishing a workout, deleting a set and deleting a session
\* leave weight, activity_level, goal and the four stored goal fields of
\* every profile as they were: the goals are not recomputed.
C11_NoRecompute ==
    [][weight_logs' = weight_logs =>
          /\ DOMAIN users' = DOMAIN users
          /\ \A u \in DOMAIN users : ProfileFields(users'[u]) = ProfileFields(users[u])]_vars

\* The admin, whose stored goals are not what the formula gives, has logged
\* food and deleted an entry, finished a workout, added sets and deleted one,
\* and the stored goals are still the old ones.
C11_Witness ==
    /\ GoalFields(users[1]) # GoalFields(AssignGoals(users[1]))
    /\ \E f \in food_logs : f.user_id = 1 /\ f.id = 2
    /\ Get(food_logs, 1) = {}
    /\ \E session \in workout_sessions :
          /\ session.user_id = 1
          /\ session.end_time # None
          /\ \E e \in exercise_sets : e.workout_session_id = session.id /\ e.id = 2
    /\ Get(exercise_sets, 1) = {}

Open(session) == session.end_time = None /\ session.total_duration = None
Closed(session) == session.end_time # None /\ session.total_duration # None

\* C12: a session is created open by start_workout, with no end time and no
\* duration, and closed by finish_workout, which sets both together: every
\* session is open with neither field set or closed with both, a closed
\* session does not become open again, and finish_workout on an unknown id
\* answers 'Session not found' and changes no session and no set.
C12_AsStated ==
    [][/\ \A session \in workout_sessions' : Open(session) \/ Closed(session)
       /\ \A session \in workout_sessions' :
             Get(workout_sessions, session.id) = {} => Open(session)
       /\ \A was \in workout_sessions, session \in workout_sessions' :
             (was.id = session.id /\ Closed(was)) => Closed(session)
       /\ reply'.status = "Session not found" =>
             UNCHANGED <<workout_sessions, exercise_sets>>]_vars

\* C13: every stored exercise set refers to a workout session that exists,
\* after any sequence of start_workout, add_exercise, finish_workout,
\* delete_exercise_set and delete_workout_session: deleting a session takes
\* its sets with it and add_exercise leaves no set whose session id matches
\* no session.
C13_AsStated ==
    \A e \in exercise_sets : Get(workout_sessions, e.workout_session_id) # {}

\* The sessions a set belongs to, and the users who own a set.
SessionOf(table, e) == Get(table, e.workout_session_id)
OwnersOf(table, e) == {session.user_id : session \in SessionOf(table, e)}

\* C14: a request of user A creates, changes and deletes no record of another
\* user B: delete_food, delete_weight, delete_exercise_set and
\* delete_workout_session on a record of B leave the store as it is, and
\* add_exercise and finish_workout given the id of a session of B add no set
\* to it and leave its end time and duration alone.
C14_AsStated ==
    [][LET A == reply'.user
       IN  /\ \A row \in food_logs \ food_logs' : row.user_id = A
           /\ \A row \in weight_logs \ weight_logs' : row.user_id = A
           /\ \A row \in (workout_sessions \ workout_sessions') \cup
                         (workout_sessions' \ workout_sessions) : row.user_id = A
           /\ \A e \in exercise_sets \ exercise_sets' : OwnersOf(workout_sessions, e) \subseteq {A}
           /\ \A e \in exercise_sets' \ exercise_sets : OwnersOf(workout_sessions', e) \subseteq {A}]_vars

=============================================================================
